---- MODULE Spec2Model ----
(***************************************************************************)
(* A model of islands-3d: the height-map sampler and chunked terrain mesh  *)
(* builder (src/src/height_map.rs), the banana instance generator          *)
(* (src/src/instance_compute.rs) and the game's per-frame update and input *)
(* handlers (src/src/game.rs).                                             *)
(*                                                                         *)
(* Numbers.  f32 world coordinates are fixed-point integers in units of    *)
(* 1/Unit; heights are exact rationals kept as a numerator over            *)
(* HeightDen(self); f32 rounding error is not modelled.  u32 values whose  *)
(* arithmetic can wrap are pairs <<hi, lo>> of 16-bit limbs, so that the   *)
(* whole 32-bit range is representable.                                    *)
(***************************************************************************)
EXTENDS Integers, Sequences, FiniteSets, TLC

VARIABLES
    height_map,   \* HeightMap: width, height, size, height_multiplier, image
    call,         \* the arguments <<x, y>> of the last get_height_at call
    ret,          \* what that call did: the texels it read, panic or value
    num_bananas,      \* BananaInstances.num_bananas: the grid <<Nx, Ny>>
    collected,        \* BananaInstances.collected: a Vec of (u32, u32)
    collected_buffer, \* the dense flag array uploaded as collected_buffer
    banana_instances, \* the instance buffer of the last generation pass
    overflow_checks,  \* the build panics on integer overflow (debug profile)
    panicked,         \* the program has panicked
    eye,              \* camera.eye: [x, y, z], x and z over Unit, y over HeightDen
    ground,           \* camera.ground (yaw), in units of 1/AngleDen radian
    sky,              \* camera.sky (pitch), in units of 1/AngleDen radian
    keys_down,        \* the key codes held (the Vec never holds one twice)
    touch_positions,  \* HashMap<u64, PhysicalPosition>: id -> <<x, y>>
    moving_bc_finger, \* Option<u64>: <<id>> is Some(id), << >> is None
    screen_size,      \* <<width, height>> of the window
    text,             \* the number the on-screen text section shows
    models_built,     \* height_map.models.is_some()
    fingers,          \* the window system's touches in progress: id ->
                      \* [start, last, width], where it started, where it
                      \* is and how wide the window was when it started
    terrain,          \* the arguments of HeightMap::from_bytes: image, res,
                      \* size, chunks, height_multiplier, gen_normals
    models            \* the chunk models from_bytes has pushed so far

heightVars == <<height_map, call, ret>>
bananaVars == <<num_bananas, collected, collected_buffer, banana_instances,
                overflow_checks, panicked>>
lookVars   == <<ground, sky, touch_positions, moving_bc_finger, screen_size,
                fingers>>
frameVars  == <<eye, keys_down, text, models_built>>
terrainVars == <<terrain, models>>
vars == <<heightVars, bananaVars, lookVars, frameVars, terrainVars>>

----------------------------------------------------------------------------
(* Fixed point and bounds                                                  *)

\* f32 world coordinates are carried in units of 1/Unit.
Unit == 100

\* Decoded images are 2..MaxImageDim texels wide and high.
MaxImageDim == 3

Abs(n) == IF n < 0 THEN -n ELSE n

\* f32::clamp(v, lo, hi)
Clamp(v, lo, hi) == IF v < lo THEN lo ELSE IF v > hi THEN hi ELSE v

----------------------------------------------------------------------------
(* The decoded grayscale image.  The image file is a resource, not code:   *)
(* an image is width, height and three coefficients that fix its samples.  *)

Images(dims) ==
    [width : dims, height : dims, a : {0, 37}, b : {0, 101}, c : {0, 128}]

\* The image crate panics on a coordinate outside the image.
InBounds(image, x, y) ==
    /\ 0 <= x /\ x < image.width
    /\ 0 <= y /\ y < image.height

\* image.get_pixel(x, y).0[0], an 8-bit sample.
get_pixel(image, x, y) == (image.a * x + image.b * y + image.c) % 256

----------------------------------------------------------------------------
(* HeightMap::get_height_at                                                *)

\* Texel coordinates x/self.size carry the denominator Unit*size.
TexelDen(self) == Unit * self.size

\* Heights are numerators over 255 * TexelDen^2.
HeightDen(self) == 255 * TexelDen(self) * TexelDen(self)

\* (x/self.size).clamp(0.0, self.width as f32), as a numerator over TexelDen
ClampX(self, x) == Clamp(x, 0, self.width * TexelDen(self))
ClampY(self, y) == Clamp(y, 0, self.height * TexelDen(self))

\* x.floor() as u32 and x.fract() (a numerator over TexelDen), for x >= 0
Floor(self, t) == t \div TexelDen(self)
Fract(self, t) == t % TexelDen(self)

\* The four texels get_height_at reads, in the order it reads them.
Reads(self, x, y) ==
    LET tx == Floor(self, ClampX(self, x))
        ty == Floor(self, ClampY(self, y))
    IN  << <<tx, ty>>, <<tx, ty + 1>>, <<tx + 1, ty>>, <<tx + 1, ty + 1>> >>

\* pixel as f32 / 255.0 * self.height_multiplier, as a numerator over 255
TexelHeight(self, p) ==
    get_pixel(self.image, p[1], p[2]) * self.height_multiplier

\* Interpolate with the weights of the two ends of each segment exchanged.
InterpolateEndsSwapped(self, x, y) ==
    LET d       == TexelDen(self)
        x_fract == Fract(self, ClampX(self, x))
        y_fract == Fract(self, ClampY(self, y))
        r       == Reads(self, x, y)
        height0 == TexelHeight(self, r[1])
        height1 == TexelHeight(self, r[2])
        height2 == TexelHeight(self, r[3])
        height3 == TexelHeight(self, r[4])
        heightx1 == height1 * d + (height0 - height1) * x_fract
        heightx2 == height3 * d + (height2 - height3) * x_fract
    IN  heightx2 * d + (heightx1 - heightx2) * y_fract

\* heightx1 + (heightx2-heightx1)*y_fract, as a numerator over HeightDen
Interpolate(self, x, y) ==
    LET d       == TexelDen(self)
        x_fract == Fract(self, ClampX(self, x))
        y_fract == Fract(self, ClampY(self, y))
        r       == Reads(self, x, y)
        height0 == TexelHeight(self, r[1])
        height1 == TexelHeight(self, r[2])
        height2 == TexelHeight(self, r[3])
        height3 == TexelHeight(self, r[4])
        heightx1 == height0 * d + (height1 - height0) * x_fract
        heightx2 == height2 * d + (height3 - height2) * x_fract
    IN  heightx1 * d + (heightx2 - heightx1) * y_fract

\* The first read that leaves the image, 0 when all four are inside.
FirstBadRead(self, x, y) ==
    LET r   == Reads(self, x, y)
        bad == {i \in 1..4 : ~InBounds(self.image, r[i][1], r[i][2])}
    IN  IF bad = {} THEN 0 ELSE CHOOSE i \in bad : \A j \in bad : i <= j

\* get_height_at(&self, x, y): the reads it attempts (up to and including
\* the one that panics), whether it panicked, and the value it returned.
get_height_at(self, x, y) ==
    LET r   == Reads(self, x, y)
        bad == FirstBadRead(self, x, y)
    IN  IF bad = 0
        THEN [panic |-> FALSE, reads |-> r, value |-> Interpolate(self, x, y)]
        ELSE [panic |-> TRUE, reads |-> SubSeq(r, 1, bad), value |-> 0]

----------------------------------------------------------------------------
(* u32 arithmetic.  A u32 is <<hi, lo>>, two 16-bit limbs.                 *)

Limb == 65536

U32(n) == <<n \div Limb, n % Limb>>
U32Max == <<Limb - 1, Limb - 1>>

\* a * k for a small k: the wrapped product and whether it overflowed.
Mul32(a, k) ==
    LET lo == a[2] * k
        hi == a[1] * k + lo \div Limb
    IN  [value |-> <<hi % Limb, lo % Limb>>, overflow |-> hi >= Limb]

\* a + b: the wrapped sum and whether it overflowed.
Add32(a, b) ==
    LET lo == a[2] + b[2]
        hi == a[1] + b[1] + lo \div Limb
    IN  [value |-> <<hi % Limb, lo % Limb>>, overflow |-> hi >= Limb]

\* `a as usize >= n` and `a as usize`, for n and the result below 2^31.
GeUsize(a, n) == a[1] >= Limb \div 2 \/ a[1] * Limb + a[2] >= n
AsUsize(a) == a[1] * Limb + a[2]

----------------------------------------------------------------------------
(* BananaInstances (instance_compute.rs)                                   *)

\* The row length collect multiplies pos.0 by.
CollectStride == 100

\* self.num_bananas[0]*self.num_bananas[1]
NumSlots(grid) == grid[1] * grid[2]

\* let i = pos.0 * 100 + pos.1;
SlotIndex(pos) ==
    LET m == Mul32(pos[1], CollectStride)
        s == Add32(m.value, pos[2])
    IN  [value |-> s.value, overflow |-> m.overflow \/ s.overflow]

\* A u32 flag array of n entries, each 0 or 1, is kept as its length and the
\* set of the indices that hold 1.
ZeroArr(n) == [len |-> n, ones |-> {}]
Flag(arr, k) == IF k \in arr.ones THEN 1 ELSE 0

\* vec![0_u32; n], then collected_arr[i as usize] = 1 for every pos of list
CollectedArr(grid, list) ==
    [len  |-> NumSlots(grid),
     ones |-> {AsUsize(SlotIndex(list[j]).value) : j \in 1..Len(list)}]

\* collect with the flag array rebuilt from the new entry alone.
collectRebuildFromLast(pos) ==
    LET i == SlotIndex(pos)
    IN  IF overflow_checks /\ i.overflow
        THEN [panic |-> TRUE, collected |-> collected,
              collected_buffer |-> collected_buffer]
        ELSE IF GeUsize(i.value, NumSlots(num_bananas))
        THEN [panic |-> FALSE, collected |-> collected,
              collected_buffer |-> collected_buffer]
        ELSE [panic |-> FALSE, collected |-> Append(collected, pos),
              collected_buffer |-> CollectedArr(num_bananas, <<pos>>)]

\* BananaInstances::collect(&mut self, pos)
collect(pos) ==
    LET i == SlotIndex(pos)
    IN  IF overflow_checks /\ i.overflow
        THEN [panic |-> TRUE, collected |-> collected,
              collected_buffer |-> collected_buffer]
        ELSE IF GeUsize(i.value, NumSlots(num_bananas))
        THEN [panic |-> FALSE, collected |-> collected,
              collected_buffer |-> collected_buffer]
        ELSE [panic |-> FALSE, collected |-> Append(collected, pos),
              collected_buffer |->
                  CollectedArr(num_bananas, Append(collected, pos))]

\* An instance the generation pass emits: a degenerate (zero-scale) one for
\* a flagged slot, else the transform derived from slot and time.
Degenerate == << >>
Transform(ix, iy, time) == <<ix, iy, time>>

\* The generation program, dispatched over [Nx, Ny, 1] with the row length
\* num_bananas[1]: cell (ix, iy) writes instance ix * Ny + iy, degenerate
\* when its flag is set.  The buffer it fills is kept as its length, row
\* length and time and the set of the indices that came out degenerate.
GenerateInstances(grid, flags, time) ==
    [len |-> NumSlots(grid), row |-> grid[2], time |-> time,
     degenerate |-> {k \in flags.ones : k < NumSlots(grid)}]

\* Instance k of a generated buffer.
Instance(buf, k) ==
    IF k \in buf.degenerate THEN Degenerate
    ELSE Transform(k \div buf.row, k % buf.row, buf.time)

\* BananaInstances::create_bananas(&self, time, image)
create_bananas(time) ==
    GenerateInstances(num_bananas, collected_buffer, time)

\* BananaInstances::new(num_bananas, ...)
NewBananas(grid) ==
    /\ num_bananas = grid
    /\ collected = << >>
    /\ collected_buffer = ZeroArr(NumSlots(grid))

\* No generation pass has run.
NoInstances == [len |-> 0, row |-> 1, time |-> 0, degenerate |-> {}]

\* No BananaInstances exists (the specifications that do not use one).
NoBananas ==
    /\ num_bananas = <<0, 0>>
    /\ collected = << >>
    /\ collected_buffer = ZeroArr(0)
    /\ banana_instances = NoInstances
    /\ overflow_checks = FALSE
    /\ panicked = FALSE

\* No height map is loaded (the specifications that do not use one).
NoReturn == [panic |-> FALSE, reads |-> << >>, value |-> 0]
NoHeightMap ==
    /\ height_map = [width |-> 0, height |-> 0, size |-> 1,
                     height_multiplier |-> 0,
                     image |-> [width |-> 0, height |-> 0,
                                a |-> 0, b |-> 0, c |-> 0]]
    /\ call = << >>
    /\ ret = NoReturn

\* No Game exists (the specifications that do not use one).
NoGame ==
    /\ eye = [x |-> 0, y |-> 0, z |-> 0]
    /\ ground = 0
    /\ sky = 0
    /\ keys_down = {}
    /\ touch_positions = << >>
    /\ moving_bc_finger = << >>
    /\ screen_size = <<0, 0>>
    /\ text = 0
    /\ models_built = FALSE
    /\ fingers = << >>

\* No terrain is being built (the specifications that do not build one).
NoTerrain ==
    /\ terrain = [image |-> [width |-> 0, height |-> 0, a |-> 0, b |-> 0, c |-> 0],
                  res |-> 1, size |-> 1, chunks |-> 0, height_multiplier |-> 0,
                  gen_normals |-> FALSE]
    /\ models = << >>

----------------------------------------------------------------------------
(* Height queries on a height field: the specification SpecHeight          *)

HeightMaps ==
    {[width |-> im.width, height |-> im.height, size |-> s,
      height_multiplier |-> 100, image |-> im] :
        im \in Images(2..MaxImageDim), s \in {1, 2}}

\* World coordinates from one texel before the map to one texel past it, in
\* steps of half a texel.
QueryCoords(self, n) ==
    {k * ((Unit * self.size) \div 2) : k \in (-2)..(2 * (n + 1))}

InitHeight ==
    /\ height_map \in HeightMaps
    /\ call = << >>
    /\ ret = NoReturn
    /\ NoBananas
    /\ NoGame
    /\ NoTerrain

GetHeightAt(x, y) ==
    /\ call' = <<x, y>>
    /\ ret' = get_height_at(height_map, x, y)
    /\ UNCHANGED <<height_map, bananaVars, lookVars, frameVars, terrainVars>>

NextHeight ==
    \E x \in QueryCoords(height_map, height_map.width),
       y \in QueryCoords(height_map, height_map.height) : GetHeightAt(x, y)

SpecHeight == InitHeight /\ [][NextHeight]_vars

----------------------------------------------------------------------------
(* Claims about get_height_at, under SpecHeight                            *)

Called == call # << >>

\* The texel coordinate of a world coordinate that lies on the texel grid.
OnGrid(self, v) == v % TexelDen(self) = 0
Texel(self, v) == v \div TexelDen(self)

\* C1: every call of get_height_at, whatever its input, reads only texels
\* inside the image and returns a value instead of failing.
C1_NeverReadsOutsideImage ==
    Called =>
        /\ ~ret.panic
        /\ \A i \in 1..Len(ret.reads) :
              InBounds(height_map.image, ret.reads[i][1], ret.reads[i][2])

\* C2: at a grid point whose four surrounding texels exist, get_height_at
\* returns exactly the stored sample there, sample/255 * height_multiplier.
C2_IdentityAtGridPoints ==
    (/\ Called
     /\ OnGrid(height_map, call[1]) /\ OnGrid(height_map, call[2])
     /\ 0 <= call[1] /\ Texel(height_map, call[1]) < height_map.width - 1
     /\ 0 <= call[2] /\ Texel(height_map, call[2]) < height_map.height - 1)
    => /\ ~ret.panic
       /\ ret.value =
            get_pixel(height_map.image, Texel(height_map, call[1]),
                      Texel(height_map, call[2]))
            * height_map.height_multiplier
            * TexelDen(height_map) * TexelDen(height_map)

\* C2's case: a grid point strictly inside a map of size 1 whose sample there
\* differs from its neighbours' was queried.
C2_Witness ==
    /\ Called
    /\ height_map.size = 1
    /\ OnGrid(height_map, call[1]) /\ OnGrid(height_map, call[2])
    /\ 0 < call[1] /\ Texel(height_map, call[1]) < height_map.width - 1
    /\ 0 < call[2] /\ Texel(height_map, call[2]) < height_map.height - 1
    /\ ~ret.panic
    /\ ret.value > 0
    /\ TexelHeight(height_map, ret.reads[1]) # TexelHeight(height_map, ret.reads[2])
    /\ TexelHeight(height_map, ret.reads[1]) # TexelHeight(height_map, ret.reads[3])

\* The bilinear interpolation in which the fraction of x weights the texels
\* that differ in x and the fraction of y those that differ in y.
ReferenceBilinear(self, x, y) ==
    LET d   == TexelDen(self)
        xf  == Fract(self, ClampX(self, x))
        yf  == Fract(self, ClampY(self, y))
        tx  == Floor(self, ClampX(self, x))
        ty  == Floor(self, ClampY(self, y))
        s00 == TexelHeight(self, <<tx, ty>>)
        s10 == TexelHeight(self, <<tx + 1, ty>>)
        s01 == TexelHeight(self, <<tx, ty + 1>>)
        s11 == TexelHeight(self, <<tx + 1, ty + 1>>)
        lo  == s00 * d + (s10 - s00) * xf
        hi  == s01 * d + (s11 - s01) * xf
    IN  lo * d + (hi - lo) * yf

\* C3: for every in-map input get_height_at equals the reference bilinear
\* interpolation, the fraction of x weighting the texels that differ in x.
C3_EqualsReferenceBilinear ==
    (Called /\ 0 <= call[1] /\ 0 <= call[2] /\ ~ret.panic) =>
        ret.value = ReferenceBilinear(height_map, call[1], call[2])

----------------------------------------------------------------------------
(* The BananaInstances interface driven directly: SpecCollect              *)

\* collect never appends once the list holds MaxCollected entries.
MaxCollected == 2

Grids == {<<100, 100>>, <<2, 3>>}

CollectInputs ==
    {<<U32(5), U32(5)>>, <<U32(5), U32(6)>>, <<U32(0), U32(150)>>,
     <<U32(100), U32(0)>>, <<U32(42949673), U32(0)>>, <<U32Max, U32Max>>,
     <<U32(0), U32(2)>>, <<U32(1), U32(2)>>, <<U32(0), U32(5)>>}

Times == {0, 1}

InitCollect ==
    /\ \E grid \in Grids : NewBananas(grid)
    /\ banana_instances = NoInstances
    /\ overflow_checks \in BOOLEAN
    /\ panicked = FALSE
    /\ NoHeightMap
    /\ NoGame
    /\ NoTerrain

Collect(pos) ==
    /\ ~panicked
    /\ Len(collected) < MaxCollected
    /\ LET r == collect(pos)
       IN  /\ panicked' = r.panic
           /\ collected' = r.collected
           /\ collected_buffer' = r.collected_buffer
    /\ UNCHANGED <<num_bananas, banana_instances, overflow_checks>>
    /\ UNCHANGED <<heightVars, lookVars, frameVars, terrainVars>>

CreateBananas(time) ==
    /\ ~panicked
    /\ banana_instances' = create_bananas(time)
    /\ UNCHANGED <<num_bananas, collected, collected_buffer,
                   overflow_checks, panicked>>
    /\ UNCHANGED <<heightVars, lookVars, frameVars, terrainVars>>

NextCollect ==
    \/ \E pos \in CollectInputs : Collect(pos)
    \/ \E time \in Times : CreateBananas(time)

SpecCollect == InitCollect /\ [][NextCollect]_vars

----------------------------------------------------------------------------
(* Claims about collect and the generation pass, under SpecCollect         *)

\* The entries of the collected list.
CollectedSet == {collected[j] : j \in 1..Len(collected)}

\* The slot (ix, iy) lies in the Nx x Ny grid.
InGrid(grid, pos) ==
    /\ ~GeUsize(pos[1], grid[1])
    /\ ~GeUsize(pos[2], grid[2])

\* The slot whose linear index ix * Ny + iy is k.
SlotAt(grid, k) == <<U32(k \div grid[2]), U32(k % grid[2])>>

\* C4: collect is idempotent: however often collect is called with an
\* in-grid slot, the collected list holds that slot at most once.
C4_CollectIdempotent ==
    \A pos \in CollectedSet :
        InGrid(num_bananas, pos) =>
            Cardinality({j \in 1..Len(collected) : collected[j] = pos}) <= 1

\* C5: collect on a slot outside the grid (ix >= Nx or iy >= Ny) raises no
\* error and leaves the collected list and every flag unchanged.
C5_OutOfGridIsNoOp ==
    [][\A pos \in CollectInputs :
          (Collect(pos) /\ ~InGrid(num_bananas, pos)) =>
              /\ ~panicked'
              /\ collected' = collected
              /\ collected_buffer' = collected_buffer]_vars

\* C6: the flag at index ix * Ny + iy is 1 if and only if (ix, iy) is in
\* the collected list, for every slot of the grid.
C6_FlagsMirrorCollected ==
    /\ collected_buffer.len = NumSlots(num_bananas)
    /\ \A k \in 0..(NumSlots(num_bananas) - 1) :
          Flag(collected_buffer, k) = 1 <=> SlotAt(num_bananas, k) \in CollectedSet

\* C7: a generation pass degenerates exactly the instances of the collected
\* slots; every other slot of the grid gets its transform for the time given.
C7_GenerationDegeneratesCollected ==
    [][\A time \in Times :
          CreateBananas(time) =>
              \A k \in 0..(NumSlots(num_bananas) - 1) :
                  LET slot == SlotAt(num_bananas, k)
                  IN  IF slot \in CollectedSet
                      THEN Instance(banana_instances', k) = Degenerate
                      ELSE Instance(banana_instances', k) =
                             Transform(k \div num_bananas[2],
                                       k % num_bananas[2], time)]_vars

\* The flag of an in-grid slot (ix, iy), at linear index ix * Ny + iy.
SlotFlag(grid, arr, pos) ==
    Flag(arr, AsUsize(pos[1]) * grid[2] + AsUsize(pos[2]))

\* C13: collection is append-only.  The collected list starts empty with
\* every flag 0; in every step (a collect call or a generation call) the list
\* keeps its entries, no flag goes from 1 to 0, and in every state the flag
\* of each in-grid slot of the collected set is 1.
C13_CollectionAppendOnly ==
    /\ collected = << >>
    /\ collected_buffer.ones = {}
    /\ [][/\ Len(collected) <= Len(collected')
          /\ SubSeq(collected', 1, Len(collected)) = collected
          /\ collected_buffer.ones \subseteq collected_buffer'.ones
          /\ \A j \in 1..Len(collected') :
                InGrid(num_bananas, collected'[j]) =>
                    SlotFlag(num_bananas, collected_buffer', collected'[j]) = 1
         ]_vars

\* C13's case: two different in-grid slots were collected one after the
\* other and a generation call has run since, degenerating both.
C13_Witness ==
    /\ Len(collected) = 2
    /\ collected[1] # collected[2]
    /\ \A j \in 1..2 :
          /\ InGrid(num_bananas, collected[j])
          /\ SlotFlag(num_bananas, collected_buffer, collected[j]) = 1
    /\ Cardinality(banana_instances.degenerate) = 2

----------------------------------------------------------------------------
(* Game: the look handlers mouse_motion and touch (game.rs)                *)

\* Angles are carried in units of 1/AngleDen radian: a motion of one pixel,
\* divided by 500.0, is PixelAngle units.
PixelAngle == 1000
AngleDen == 500 * PixelAngle

\* std::f32::consts::PI*0.499 in those units (1.5676547 rad).
SkyLimit == 783827

\* mouse_motion without the clamp of the pitch.
mouse_motionUnclamped(delta) ==
    [ground |-> ground + delta[1] * PixelAngle,
     sky    |-> sky - delta[2] * PixelAngle]

\* Game::mouse_motion(delta): the new ground and sky.
mouse_motion(delta) ==
    [ground |-> ground + delta[1] * PixelAngle,
     sky    |-> Clamp(sky - delta[2] * PixelAngle, -SkyLimit, SkyLimit)]

\* HashMap insert and remove.
MapInsert(map, key, value) ==
    [k \in DOMAIN map \cup {key} |-> IF k = key THEN value ELSE map[k]]
MapRemove(map, key) == [k \in DOMAIN map \ {key} |-> map[k]]
EmptyMap == [k \in {} |-> << >>]

\* TouchPhase::Moved
TouchMoved(id, location) ==
    IF id \in DOMAIN touch_positions
    THEN LET last_position == touch_positions[id]
             delta == <<location[1] - last_position[1],
                        location[2] - last_position[2]>>
             m == mouse_motion(delta)
         IN  /\ ground' = m.ground
             /\ sky' = m.sky
             /\ touch_positions' = MapInsert(touch_positions, id, location)
             /\ UNCHANGED moving_bc_finger
    ELSE UNCHANGED <<ground, sky, touch_positions, moving_bc_finger>>

\* TouchPhase::Started
TouchStarted(id, location) ==
    /\ IF 2 * location[1] <= screen_size[1]
       THEN /\ touch_positions' = MapInsert(touch_positions, id, location)
            /\ UNCHANGED moving_bc_finger
       ELSE /\ moving_bc_finger' = <<id>>
            /\ UNCHANGED touch_positions
    /\ UNCHANGED <<ground, sky>>

\* TouchPhase::Ended | TouchPhase::Cancelled
TouchEnded(id) ==
    /\ touch_positions' = MapRemove(touch_positions, id)
    /\ moving_bc_finger' =
          IF moving_bc_finger = <<id>> THEN << >> ELSE moving_bc_finger
    /\ UNCHANGED <<ground, sky>>

----------------------------------------------------------------------------
(* The look handlers driven by the window system: SpecInput                *)

\* The yaw is followed while it stays within MaxYawPixels pixels of motion.
MaxYawPixels == 900

TouchIds == {1, 2}
\* Where touches start (left half, the middle column, right half of the
\* 800 pixel wide window), where they move to and where they end.
StartLocations == {<<100, 100>>, <<400, 100>>, <<700, 100>>}
MoveLocations == {<<100, 100>>, <<700, 100>>, <<400, 1900>>}
EndLocations == {<<100, 100>>}
TouchLocations == StartLocations \cup MoveLocations
\* The sizes the window is resized to: as it starts, and so wide that every
\* touch location is in its left half.
WindowSizes == {<<800, 600>>, <<2000, 600>>}
MouseDeltas == {<<300, 0>>, <<-300, 0>>, <<0, 500>>, <<0, -500>>,
                <<300, 3000>>, <<-300, -3000>>}

InitLook ==
    /\ ground = 0
    /\ sky = 0
    /\ touch_positions = EmptyMap
    /\ moving_bc_finger = << >>
    /\ screen_size = <<800, 600>>
    /\ fingers = EmptyMap

InitInput ==
    /\ InitLook
    /\ eye = [x |-> 0, y |-> 0, z |-> 0]
    /\ keys_down = {}
    /\ text = 0
    /\ models_built = FALSE
    /\ NoHeightMap
    /\ NoBananas
    /\ NoTerrain

\* The yaw the model follows is bounded.
YawInRange == Abs(ground') <= MaxYawPixels * PixelAngle

\* WindowHandler::mouse_motion
MouseMotion(delta) ==
    /\ ~panicked
    /\ LET m == mouse_motion(delta)
       IN  /\ ground' = m.ground
           /\ sky' = m.sky
    /\ YawInRange
    /\ UNCHANGED <<touch_positions, moving_bc_finger, screen_size, fingers>>
    /\ UNCHANGED <<heightVars, bananaVars, frameVars, terrainVars>>

\* WindowHandler::touch.  The window system starts a touch with an id that is
\* not in progress, and moves, ends or cancels only a touch in progress.
Touch(id, phase, location) ==
    /\ ~panicked
    /\ \/ /\ phase = "Started"
          /\ id \notin DOMAIN fingers
          /\ fingers' = MapInsert(fingers, id,
                                  [start |-> location, last |-> location,
                                   width |-> screen_size[1]])
          /\ TouchStarted(id, location)
       \/ /\ phase = "Moved"
          /\ id \in DOMAIN fingers
          /\ fingers' = MapInsert(fingers, id,
                                  [fingers[id] EXCEPT !.last = location])
          /\ TouchMoved(id, location)
       \/ /\ phase \in {"Ended", "Cancelled"}
          /\ id \in DOMAIN fingers
          /\ fingers' = MapRemove(fingers, id)
          /\ TouchEnded(id)
    /\ YawInRange
    /\ UNCHANGED screen_size
    /\ UNCHANGED <<heightVars, bananaVars, frameVars, terrainVars>>

\* WindowHandler::resize: self.screen_size = [new_size.x, new_size.y].
Resize(new_size) ==
    /\ ~panicked
    /\ screen_size' = new_size
    /\ UNCHANGED <<ground, sky, touch_positions, moving_bc_finger, fingers>>
    /\ UNCHANGED <<heightVars, bananaVars, frameVars, terrainVars>>

NextInput ==
    \/ \E delta \in MouseDeltas : MouseMotion(delta)
    \/ \E new_size \in WindowSizes : Resize(new_size)
    \/ \E id \in TouchIds, location \in StartLocations :
          Touch(id, "Started", location)
    \/ \E id \in TouchIds, location \in MoveLocations :
          Touch(id, "Moved", location)
    \/ \E id \in TouchIds, location \in EndLocations :
          Touch(id, "Ended", location)
    \/ \E id \in TouchIds, location \in EndLocations :
          Touch(id, "Cancelled", location)

SpecInput == InitInput /\ [][NextInput]_vars

----------------------------------------------------------------------------
(* Claims about the look angles, under SpecInput                           *)

PitchInRange == -SkyLimit <= sky /\ sky <= SkyLimit

\* C9: after any sequence of mouse-motion and touch-move events the pitch
\* (sky) is within [-0.499 pi, 0.499 pi], and every such event adds its whole
\* horizontal delta to the yaw (ground), which is never clamped.
C9_PitchClampedYawAccumulates ==
    /\ PitchInRange
    /\ [][/\ PitchInRange'
          /\ \A delta \in MouseDeltas :
                MouseMotion(delta) => ground' = ground + delta[1] * PixelAngle
          /\ \A id \in TouchIds, location \in TouchLocations :
                (Touch(id, "Moved", location) /\ id \in DOMAIN touch_positions)
                => ground' = ground
                             + (location[1] - touch_positions[id][1]) * PixelAngle
         ]_vars

\* C9's case: motion has driven the pitch onto its limit while the yaw has
\* gone past that limit, a touch being tracked.
C9_Witness ==
    /\ sky = -SkyLimit
    /\ ground > SkyLimit
    /\ DOMAIN touch_positions # {}

\* Where a touch in progress started: strictly in the right half of the
\* window as it was then, or strictly in the left half.
StartedRight(id) == 2 * fingers[id].start[1] > fingers[id].width
StartedLeft(id) == 2 * fingers[id].start[1] < fingers[id].width

\* C11: the move events of a touch that started on the right half of the
\* screen rotate the camera by the motion since the touch's last position;
\* the move events of a touch that started on the left half leave the yaw and
\* the pitch as they are.
C11_RightHalfLooksLeftHalfMoves ==
    [][\A id \in TouchIds, location \in MoveLocations :
          (Touch(id, "Moved", location) /\ id \in DOMAIN fingers) =>
              /\ StartedRight(id) =>
                    /\ ground' = ground
                          + (location[1] - fingers[id].last[1]) * PixelAngle
                    /\ sky' = Clamp(sky - (location[2] - fingers[id].last[2])
                                             * PixelAngle,
                                    -SkyLimit, SkyLimit)
              /\ StartedLeft(id) => (ground' = ground /\ sky' = sky)]_vars

\* The touches in progress that started in the half of the window whose
\* touches touch() takes as movement touches (x > screen_size[0]/2, with
\* the window as wide as it was at the start).
MovementTouchesHeld ==
    {id \in DOMAIN fingers : 2 * fingers[id].start[1] > fingers[id].width}

\* C20: moving_bc_finger is set if and only if at least one touch that started
\* in the movement half has not yet ended or been cancelled.
C20_MovingWhileMovementTouchHeld ==
    moving_bc_finger # << >> <=> MovementTouchesHeld # {}

----------------------------------------------------------------------------
(* Game: new, input_event and the per-frame update of render (game.rs)     *)

\* The side of the square height.png resource, in texels.
GameImageDim == 3200

\* HeightMap::from_bytes(device, height_image_bytes, 2, 1.0, 5, 250.0, true)
GameHeightMap ==
    [width |-> GameImageDim, height |-> GameImageDim, size |-> 1,
     height_multiplier |-> 250,
     image |-> [width |-> GameImageDim, height |-> GameImageDim,
                a |-> 37, b |-> 101, c |-> 128]]

\* BananaInstances::new([100, 100], ...)
GameGrid == <<100, 100>>

\* The slot spacing 30.96 and the capture radius 5.0, over Unit.
BananaSpacing == 3096
CaptureRadius == 500

\* The eye offset 2.0 above the ground.
EyeOffset == 2

\* f32::round of n/d for d > 0: half away from zero.
RoundDiv(n, d) ==
    IF n >= 0 THEN (2 * n + d) \div (2 * d)
    ELSE -((2 * (-n) + d) \div (2 * d))

\* `r as u32`: the cast saturates, a negative value to 0.  (No coordinate of
\* the model rounds to 2^32 or more.)
CastU32(r) == IF r < 0 THEN U32(0) ELSE U32(r)

\* ((eye.x/30.96).round() as u32, (eye.z/30.96).round() as u32)
BananaCoords(e) ==
    <<CastU32(RoundDiv(e.x, BananaSpacing)), CastU32(RoundDiv(e.z, BananaSpacing))>>

\* The capture test with the radius taken per axis and not as a distance.
WithinCapturePerAxis(e, coords) ==
    LET dx == e.x - AsUsize(coords[1]) * BananaSpacing
        dz == e.z - AsUsize(coords[2]) * BananaSpacing
    IN  /\ Abs(dx) <= CaptureRadius
        /\ Abs(dz) <= CaptureRadius

\* eye.distance((coords.0 * 30.96, eye.y, coords.1 * 30.96)) < 5.0: the y
\* components are equal, so the distance is that of x and z.  (Each offset is
\* compared first so that the squares stay small.)
WithinCapture(e, coords) ==
    LET dx == e.x - AsUsize(coords[1]) * BananaSpacing
        dz == e.z - AsUsize(coords[2]) * BananaSpacing
    IN  /\ Abs(dx) < CaptureRadius
        /\ Abs(dz) < CaptureRadius
        /\ dx * dx + dz * dz < CaptureRadius * CaptureRadius

\* Whether the `eye +=` and `eye -=` of the held keys leave a horizontal
\* displacement: opposite keys cancel.
Forward == (IF "KeyW" \in keys_down \/ moving_bc_finger # << >> THEN 1 ELSE 0)
           - (IF "KeyS" \in keys_down THEN 1 ELSE 0)
Rightward == (IF "KeyD" \in keys_down THEN 1 ELSE 0)
             - (IF "KeyA" \in keys_down THEN 1 ELSE 0)
MovesHorizontally == Forward # 0 \/ Rightward # 0

\* The `eye += unit_y * speed` of Space and `eye -= unit_y * speed` of
\* ShiftLeft, in units of speed.
Upward == (IF "Space" \in keys_down THEN 1 ELSE 0)
          - (IF "ShiftLeft" \in keys_down THEN 1 ELSE 0)

\* let speed = 0.02 * delta as f32, as a numerator over HeightDen.
Speed(delta) == (2 * delta * HeightDen(height_map)) \div 100

\* The eye after the key moves of render.  The held keys move the eye by
\* get_walking_vec and get_right_vec times 0.02 * delta: the camera's vectors
\* and the frame time are the engine's, so the eye lands on any `target` when
\* the keys leave a horizontal displacement and keeps its x and z otherwise.
MovedEye(target, delta) ==
    [x |-> IF MovesHorizontally THEN target[1] ELSE eye.x,
     z |-> IF MovesHorizontally THEN target[2] ELSE eye.z,
     y |-> eye.y + Upward * Speed(delta)]

\* The eye left where the key moves put it, with no snap to the ground.
SnapEyeSkipped(e, h) == e

\* self.camera.eye.y = self.height_map.get_height_at(eye.x, eye.z)+2.0
SnapEye(e, h) == [e EXCEPT !.y = h.value + EyeOffset * HeightDen(height_map)]

\* A counter text that counts the collect calls.
CounterTextCountsCalls(r) == text + 1

\* The number the text section is set to after a collect call:
\* self.banana_instances_gen.collected.len().to_string()
CounterText(r) == Len(r.collected)

\* A generation pass that reads the flags as they were before the frame.
FrameInstancesStale(flags, time) ==
    GenerateInstances(num_bananas, collected_buffer, time)

\* self.banana_instances = self.banana_instances_gen.create_bananas(...),
\* reading the flag buffer as the frame's collection check left it.
FrameInstances(flags, time) == GenerateInstances(num_bananas, flags, time)

\* Game::new
InitGame ==
    /\ height_map = GameHeightMap
    /\ call = << >>
    /\ ret = NoReturn
    /\ eye = [x |-> (GameHeightMap.width * Unit) \div 2,
              y |-> (GameHeightMap.height_multiplier \div 5)
                      * HeightDen(GameHeightMap),
              z |-> (GameHeightMap.height * Unit) \div 2]
    /\ NewBananas(GameGrid)
    /\ banana_instances = GenerateInstances(GameGrid, ZeroArr(NumSlots(GameGrid)), 0)
    /\ keys_down = {}
    /\ text = 0
    /\ panicked = FALSE
    /\ InitLook
    /\ NoTerrain

\* WindowHandler::input_event
InputEvent(code, pressed) ==
    /\ ~panicked
    /\ keys_down' = IF pressed THEN keys_down \cup {code}
                    ELSE keys_down \ {code}
    /\ UNCHANGED <<eye, text, models_built>>
    /\ UNCHANGED <<heightVars, bananaVars, lookVars, terrainVars>>

\* The else branch of render: self.height_map.create_models(device).
CreateModels ==
    /\ ~panicked
    /\ ~models_built
    /\ models_built' = TRUE
    /\ UNCHANGED <<eye, keys_down, text>>
    /\ UNCHANGED <<heightVars, bananaVars, lookVars, terrainVars>>

\* The collection check without the test that the slot is not yet collected.
CollectionCheckUnguarded(e) ==
    LET banana_coords == BananaCoords(e)
    IN  IF WithinCapture(e, banana_coords)
        THEN LET r == collect(banana_coords)
             IN  [panic |-> r.panic, collected |-> r.collected,
                  collected_buffer |-> r.collected_buffer,
                  text |-> IF r.panic THEN text ELSE CounterText(r)]
        ELSE [panic |-> FALSE, collected |-> collected,
              collected_buffer |-> collected_buffer, text |-> text]

\* The collection check of render at eye e: the collected list, the flag
\* buffer, the counter text and whether collect panicked.
CollectionCheck(e) ==
    LET banana_coords == BananaCoords(e)
    IN  IF banana_coords \notin {collected[j] : j \in 1..Len(collected)}
           /\ WithinCapture(e, banana_coords)
        THEN LET r == collect(banana_coords)
             IN  [panic |-> r.panic, collected |-> r.collected,
                  collected_buffer |-> r.collected_buffer,
                  text |-> IF r.panic THEN text ELSE CounterText(r)]
        ELSE [panic |-> FALSE, collected |-> collected,
              collected_buffer |-> collected_buffer, text |-> text]

\* The update of WindowHandler::render: the key moves, the snap of eye.y to
\* the ground (which panics when get_height_at reads outside the image), the
\* collection check, then the generation pass.
Render(target, time, delta) ==
    /\ ~panicked
    /\ models_built
    /\ \E m \in {MovedEye(target, delta)} :
       \E h \in {get_height_at(height_map, m.x, m.z)} :
         /\ call' = <<m.x, m.z>>
         /\ ret' = h
         /\ IF h.panic
            THEN /\ panicked' = TRUE
                 /\ eye' = m
                 /\ UNCHANGED <<collected, collected_buffer, text,
                                banana_instances>>
            ELSE \E e \in {SnapEye(m, h)} :
                 \E c \in {CollectionCheck(e)} :
                   /\ eye' = e
                   /\ panicked' = c.panic
                   /\ collected' = c.collected
                   /\ collected_buffer' = c.collected_buffer
                   /\ text' = c.text
                   /\ banana_instances' =
                        IF c.panic THEN banana_instances
                        ELSE FrameInstances(c.collected_buffer, time)
    /\ UNCHANGED <<height_map, num_bananas, overflow_checks, keys_down,
                   models_built>>
    /\ UNCHANGED <<lookVars, terrainVars>>

----------------------------------------------------------------------------
(* The frame loop: SpecFrames                                              *)

\* Where the key moves take the eye: around the slots (0,0) and (1,0), at the
\* slot (100,0) just outside the grid, and just before and at the last texel
\* column of the map, where get_height_at reads past the image.
EyeTargets ==
    {-200, 0, 300, BananaSpacing, BananaSpacing + 300,
     100 * BananaSpacing,
     (GameImageDim - 1) * Unit - 50, (GameImageDim - 1) * Unit}
    \X {0, 400}

\* The keys the player presses and releases.
KeysPressed == {"KeyW", "KeyS", "Space", "ShiftLeft"}

\* The touch that holds the movement finger down: on the right of the window
\* as it starts, on the left once the window is resized to the wider size.
MoveTouch == <<700, 100>>

\* The frame times `delta` render is called with, in milliseconds, and the
\* time since the start that the frames put in the time binding (Game::new
\* generated the first instances at time 0).
FrameDeltas == {16, 100}
FrameTimes == {1}

InitFrames ==
    /\ InitGame
    /\ models_built \in BOOLEAN
    /\ overflow_checks \in BOOLEAN

NextFrames ==
    \/ \E code \in KeysPressed, pressed \in BOOLEAN : InputEvent(code, pressed)
    \/ \E phase \in {"Started", "Ended"} : Touch(1, phase, MoveTouch)
    \/ CreateModels
    \/ \E new_size \in WindowSizes : Resize(new_size)
    \/ \E target \in EyeTargets, time \in FrameTimes, delta \in FrameDeltas :
          Render(target, time, delta)

SpecFrames == InitFrames /\ [][NextFrames]_vars

----------------------------------------------------------------------------
(* Claims about the frame loop, under SpecFrames                           *)

\* C8: whatever the frames and camera positions, the collected list never
\* holds the same slot twice.
C8_NoDoubleCollect ==
    \A i, j \in 1..Len(collected) : collected[i] = collected[j] => i = j

\* C8's case: after two slots were collected, a frame ends with the camera
\* back within the capture radius of the slot collected first.
C8_Witness ==
    /\ Len(collected) = 2
    /\ BananaCoords(eye) = collected[1]
    /\ WithinCapture(eye, collected[1])
    /\ banana_instances.degenerate = collected_buffer.ones
    /\ ~panicked

\* An update frame has run to its end: render took the branch of the built
\* models and get_height_at returned.
FrameEnded == call # << >> /\ ~ret.panic

\* C12: at the end of every update frame, whatever keys are held (Space and
\* ShiftLeft included), eye.y is get_height_at(eye.x, eye.z) plus the eye
\* offset.
C12_EyeSnappedToGround ==
    FrameEnded =>
        /\ call = <<eye.x, eye.z>>
        /\ eye.y = get_height_at(height_map, eye.x, eye.z).value
                    + EyeOffset * HeightDen(height_map)

\* C12's case: a frame ended after a horizontal move with Space held and
\* ShiftLeft not, so that the key moves had raised the eye.
C12_Witness ==
    /\ FrameEnded
    /\ "Space" \in keys_down /\ "ShiftLeft" \notin keys_down
    /\ "KeyW" \in keys_down
    /\ eye.x = 300 /\ eye.z = 400
    /\ ret.value > 0

\* The linear indices ix * Ny + iy of the collected slots.
CollectedIndices ==
    {AsUsize(pos[1]) * num_bananas[2] + AsUsize(pos[2]) : pos \in CollectedSet}

\* C14: the generation pass of a frame reads the flags as rebuilt by the
\* collection of the same frame: whenever the program has not panicked, the
\* instances that the last generation pass degenerated are exactly those of
\* the slots collected so far, the slot collected in that frame included.
C14_GenerationSeesSameFrameCollection ==
    ~panicked =>
        /\ banana_instances.degenerate = collected_buffer.ones
        /\ banana_instances.degenerate = CollectedIndices
        /\ \A k \in CollectedIndices : Instance(banana_instances, k) = Degenerate

\* C14's case: the frame that has just ended collected the slot the eye is
\* at, and its generation pass, at time 1, degenerated that slot's instance.
C14_Witness ==
    /\ FrameEnded /\ ~panicked
    /\ Len(collected) = 2
    /\ collected[2] = BananaCoords(eye)
    /\ banana_instances.time = 1
    /\ Instance(banana_instances, AsUsize(collected[2][1]) * num_bananas[2]
                                    + AsUsize(collected[2][2])) = Degenerate

\* k is the integer nearest to v / spacing.
NearestSlot(k, v) == 2 * Abs(v - k * BananaSpacing) <= BananaSpacing

\* The square of the distance from the eye to the nominal position of a
\* slot, (ix * spacing, eye.y, iy * spacing).
SlotDistanceSquared(e, pos) ==
    LET dx == e.x - AsUsize(pos[1]) * BananaSpacing
        dy == e.y - e.y
        dz == e.z - AsUsize(pos[2]) * BananaSpacing
    IN  dx * dx + dy * dy + dz * dz

\* C15: a step collects at most one slot, and the slot it collects is the
\* candidate slot of the frame's eye position, was not collected before, and
\* lies at a distance below the capture radius from the eye.
C15_CollectsOnlyNearCandidate ==
    [][collected' # collected =>
          /\ Len(collected') = Len(collected) + 1
          /\ SubSeq(collected', 1, Len(collected)) = collected
          /\ LET pos == collected'[Len(collected')]
             IN  /\ NearestSlot(AsUsize(pos[1]), eye'.x)
                 /\ NearestSlot(AsUsize(pos[2]), eye'.z)
                 /\ pos \notin CollectedSet
                 /\ SlotDistanceSquared(eye', pos)
                      < CaptureRadius * CaptureRadius]_vars

\* C15's case: after a slot was collected, a frame ended with the eye exactly
\* at the capture radius from the uncollected candidate slot (1, 0), which
\* the frame left uncollected.
C15_Witness ==
    /\ FrameEnded /\ ~panicked
    /\ Len(collected) = 1
    /\ BananaCoords(eye) = <<U32(1), U32(0)>>
    /\ BananaCoords(eye) \notin CollectedSet
    /\ SlotDistanceSquared(eye, BananaCoords(eye)) = CaptureRadius * CaptureRadius

\* C16: the number shown by the on-screen counter is the size of the
\* collected set, from the start (0, the empty set) and after every frame.
C16_CounterShowsCollectedSize ==
    text = Cardinality(CollectedSet)

\* C16's case: after two collections a frame ended with the eye on the slot
\* (100, 0), outside the grid, whose collection was attempted and ignored.
C16_Witness ==
    /\ FrameEnded /\ ~panicked
    /\ Len(collected) = 2
    /\ text = 2
    /\ BananaCoords(eye) = <<U32(100), U32(0)>>
    /\ WithinCapture(eye, BananaCoords(eye))
    /\ GeUsize(SlotIndex(BananaCoords(eye)).value, NumSlots(num_bananas))

----------------------------------------------------------------------------
(* HeightMap::from_bytes: the chunk meshes (height_map.rs)                 *)

\* let width = image.width()/res; let height = image.height()/res;
SampledWidth(t) == t.image.width \div t.res
SampledHeight(t) == t.image.height \div t.res

\* No extra row or column for any chunk.
ExtraNone(t, c) == 0

\* let extra_x = if cx == chunks-1 { 0 } else { 1 };
Extra(t, c) == IF c = t.chunks - 1 THEN 0 ELSE 1

\* The bounds of the loops over x and y: width/chunks+extra_x and
\* height/chunks+extra_y.
XCount(t, cx) == SampledWidth(t) \div t.chunks + Extra(t, cx)
YCount(t, cy) == SampledHeight(t) \div t.chunks + Extra(t, cy)

\* let px = x + (width/chunks)*cx; let py = y + (height/chunks)*cy;
Px(t, cx, x) == x + (SampledWidth(t) \div t.chunks) * cx
Py(t, cy, y) == y + (SampledHeight(t) \div t.chunks) * cy

\* The colour classes of a vertex.
Grass == "grass"
Snow == "snow"
Rock == "rock"

\* The colour by height v_height = sample/255 * height_multiplier: above
\* height_multiplier*0.7 snow, at most 0.1439215686*height_multiplier
\* (36.7/255 of it) rock, the later test winning.
VertexColor(t, sample) ==
    LET v_height == sample * t.height_multiplier
    IN  IF 10 * v_height <= 367 * t.height_multiplier THEN Rock
        ELSE IF 10 * v_height > 7 * 255 * t.height_multiplier THEN Snow
        ELSE Grass

\* The vertex pushed for (x, y) of chunk (cx, cy): its position is
\* [(px*res) as f32 * size, v_height, (py*res) as f32 * size], x and z over
\* Unit and the height over 255.
ChunkVertex(t, cx, cy, x, y) ==
    LET px == Px(t, cx, x)
        py == Py(t, cy, y)
        sample == get_pixel(t.image, px * t.res, py * t.res)
    IN  [position |-> <<px * t.res * t.size * Unit,
                        sample * t.height_multiplier,
                        py * t.res * t.size * Unit>>,
         color |-> VertexColor(t, sample),
         normal |-> <<0, 1, 0>>]

\* The vertices in the order the loops push them: x outer, y inner.
ChunkVertices(t, cx, cy) ==
    LET yc == YCount(t, cy)
    IN  [n \in 1..(XCount(t, cx) * yc) |->
            ChunkVertex(t, cx, cy, (n - 1) \div yc, (n - 1) % yc)]

\* The quad split along its other diagonal.
QuadIndicesOtherDiagonal(i, rowLength) ==
    <<i, i + 1, i + rowLength, i + 1, i + rowLength + 1, i + rowLength>>

\* The six indices appended for the quad at (x, y).
QuadIndices(i, rowLength) ==
    <<i, i + 1, i + rowLength + 1, i, i + rowLength + 1, i + rowLength>>

\* The index list: a quad for every (x, y) with x < xc-1 and y < yc-1, in
\* loop order.
ChunkIndices(t, cx, cy) ==
    LET xc == XCount(t, cx)
        yc == YCount(t, cy)
        quads == IF xc < 2 \/ yc < 2 THEN 0 ELSE (xc - 1) * (yc - 1)
    IN  [n \in 1..(6 * quads) |->
            LET q == (n - 1) \div 6
                x == q \div (yc - 1)
                y == q % (yc - 1)
            IN  QuadIndices(x * yc + y, yc)[((n - 1) % 6) + 1]]

\* Whether a get_pixel of the chunk's loops leaves the image.
ChunkReadsOutside(t, cx, cy) ==
    \E x \in 0..(XCount(t, cx) - 1), y \in 0..(YCount(t, cy) - 1) :
        ~InBounds(t.image, Px(t, cx, x) * t.res, Py(t, cy, y) * t.res)

\* The dirt colour [165/255, 42/255, 42/255].
Dirt == "dirt"

\* The face normal of the triangle (v1, v2, v3), the cross product of
\* u = pos(v2) - pos(v1) and v = pos(v3) - pos(v1).  With x and z in world
\* units and the heights over 255, the vector is 255 times the cross
\* product; `normalize` divides it by its length, so a normal is kept as
\* this direction.
FaceNormal(vs, v1, v2, v3) ==
    LET ux == (vs[v2].position[1] - vs[v1].position[1]) \div Unit
        uy == vs[v2].position[2] - vs[v1].position[2]
        uz == (vs[v2].position[3] - vs[v1].position[3]) \div Unit
        vx == (vs[v3].position[1] - vs[v1].position[1]) \div Unit
        vy == vs[v3].position[2] - vs[v1].position[2]
        vz == (vs[v3].position[3] - vs[v1].position[3]) \div Unit
    IN  <<uy * vz - uz * vy, 255 * (uz * vx - ux * vz), ux * vy - uy * vx>>

\* normal.y < 0.5 for the unit vector of direction n: 2 * n.y < |n|.  (A zero
\* direction normalizes to NaN, which is below nothing.)
BelowSlope(n) ==
    LET sq == n[1] * n[1] + n[2] * n[2] + n[3] * n[3]
    IN  sq > 0 /\ (n[2] < 0 \/ 4 * n[2] * n[2] < sq)

\* A recolouring that spares no colour.
RecolorAll(color) == Dirt

\* if vertices[v].color != [0.9, 0.9, 0.9] { vertices[v].color = dirt_color; }
Recolor(color) == IF color # Snow THEN Dirt ELSE color

\* One pass of the body of `for i in 0..indices.len()/3` for the triangle
\* number i (from 1): the face normal goes to its three vertices, and a face
\* below the slope threshold recolours them.
ApplyTriangle(vs, indices, i) ==
    LET v1 == indices[3 * i - 2] + 1
        v2 == indices[3 * i - 1] + 1
        v3 == indices[3 * i] + 1
        normal == FaceNormal(vs, v1, v2, v3)
        recolor(color) == IF BelowSlope(normal) THEN Recolor(color) ELSE color
    IN  [vs EXCEPT ![v1] = [position |-> vs[v1].position, normal |-> normal,
                            color |-> recolor(vs[v1].color)],
                   ![v2] = [position |-> vs[v2].position, normal |-> normal,
                            color |-> recolor(vs[v2].color)],
                   ![v3] = [position |-> vs[v3].position, normal |-> normal,
                            color |-> recolor(vs[v3].color)]]

\* The triangles order[k], order[k+1], ... applied one after the other.
RECURSIVE NormalPass(_, _, _, _)
NormalPass(vs, indices, order, k) ==
    IF k > Len(order) THEN vs
    ELSE NormalPass(ApplyTriangle(vs, indices, order[k]), indices, order, k + 1)

\* The order of `for i in 0..indices.len()/3`.
TriangleOrder(indices) == [k \in 1..(Len(indices) \div 3) |-> k]

\* The model pushed for chunk (cx, cy), with its single instance: the
\* vertices after the normal pass when gen_normals is set.
ChunkModel(t, cx, cy) ==
    LET vertices == ChunkVertices(t, cx, cy)
        indices  == ChunkIndices(t, cx, cy)
    IN  [coords |-> <<cx, cy>>,
         vertices |-> IF t.gen_normals
                      THEN NormalPass(vertices, indices,
                                      TriangleOrder(indices), 1)
                      ELSE vertices,
         indices |-> indices,
         instances |-> 1]

----------------------------------------------------------------------------
(* The chunk loop of from_bytes: SpecTerrain                               *)

\* Images are 2..MaxTerrainDim texels wide and high, cut into 1..MaxChunks
\* chunks per axis.
MaxTerrainDim == 6
MaxChunks == 3

TerrainArgs ==
    [image : [width : 2..MaxTerrainDim, height : 2..MaxTerrainDim,
              a : {37}, b : {101}, c : {0}],
     res : {1, 2}, size : {1}, chunks : 1..MaxChunks,
     height_multiplier : {4}, gen_normals : BOOLEAN]

InitTerrain ==
    /\ terrain \in TerrainArgs
    /\ models = << >>
    /\ NoHeightMap
    /\ NoBananas
    /\ NoGame

\* One pass of the body of `for cx in 0..chunks { for cy in 0..chunks {`:
\* the chunks are pushed in the order (0,0), (0,1), ...
BuildChunk ==
    /\ ~panicked
    /\ Len(models) < terrain.chunks * terrain.chunks
    /\ LET cx == Len(models) \div terrain.chunks
           cy == Len(models) % terrain.chunks
       IN  IF ChunkReadsOutside(terrain, cx, cy)
           THEN /\ panicked' = TRUE
                /\ UNCHANGED models
           ELSE /\ models' = Append(models, ChunkModel(terrain, cx, cy))
                /\ UNCHANGED panicked
    /\ UNCHANGED <<terrain, heightVars, lookVars, frameVars>>
    /\ UNCHANGED <<num_bananas, collected, collected_buffer,
                   banana_instances, overflow_checks>>

NextTerrain == BuildChunk

SpecTerrain == InitTerrain /\ [][NextTerrain]_vars

----------------------------------------------------------------------------
(* Claims about the chunk meshes, under SpecTerrain                        *)

\* The position of the vertex of grid cell (x, y) in a pushed chunk model.
VertexPosition(m, x, y) ==
    m.vertices[x * YCount(terrain, m.coords[2]) + y + 1].position

\* The pushed models of two chunks are adjacent along x, or along y.
AdjacentX(lo, hi) ==
    lo.coords[1] + 1 = hi.coords[1] /\ lo.coords[2] = hi.coords[2]
AdjacentY(lo, hi) ==
    lo.coords[1] = hi.coords[1] /\ lo.coords[2] + 1 = hi.coords[2]

\* The number of vertex columns (along x) and rows (along y) of a model.
Columns(m) == XCount(terrain, m.coords[1])
Rows(m) == YCount(terrain, m.coords[2])
HasVertices(m) == Len(m.vertices) > 0

PushedModels == {models[n] : n \in 1..Len(models)}

\* C10: for chunks adjacent along an axis, the last column (row) of vertices
\* of the lower chunk and the first column (row) of the higher chunk have
\* identical positions; only the chunks that are not last along an axis
\* carry the extra column (row).
C10_SharedEdgeIdentical ==
    /\ \A m \in PushedModels :
          /\ Len(m.vertices) = Columns(m) * Rows(m)
          /\ Columns(m) = SampledWidth(terrain) \div terrain.chunks
                           + (IF m.coords[1] = terrain.chunks - 1 THEN 0 ELSE 1)
          /\ Rows(m) = SampledHeight(terrain) \div terrain.chunks
                        + (IF m.coords[2] = terrain.chunks - 1 THEN 0 ELSE 1)
    /\ \A lo, hi \in PushedModels :
          /\ (AdjacentX(lo, hi) /\ HasVertices(hi)) =>
                \A y \in 0..(Rows(lo) - 1) :
                    VertexPosition(lo, Columns(lo) - 1, y) = VertexPosition(hi, 0, y)
          /\ (AdjacentY(lo, hi) /\ HasVertices(hi)) =>
                \A x \in 0..(Columns(lo) - 1) :
                    VertexPosition(lo, x, Rows(lo) - 1) = VertexPosition(hi, x, 0)


\* C10's case: two chunks adjacent along x and two adjacent along y have
\* been pushed, each with vertices, from an image with distinct samples.
C10_Witness ==
    /\ \E lo, hi \in PushedModels :
          AdjacentX(lo, hi) /\ HasVertices(hi) /\ Rows(lo) > 1
    /\ \E lo, hi \in PushedModels :
          AdjacentY(lo, hi) /\ HasVertices(hi) /\ Columns(lo) > 1
    /\ Len(models) = terrain.chunks * terrain.chunks

\* C17: in every chunk mesh the vertex of grid cell (x, y) is stored at index
\* x * rowLength + y; the quad of each cell that has a right and a lower
\* neighbour yields the triangles {i, i+1, i+rowLength+1} and
\* {i, i+rowLength+1, i+rowLength}, and nothing else is in the index list;
\* every index is less than the vertex count.
C17_RowMajorIndexScheme ==
    \A m \in PushedModels :
        LET cols == Columns(m)
            rowLength == Rows(m)
            quads == {<<x, y>> \in (0..(cols - 2)) \X (0..(rowLength - 2)) : TRUE}
        IN  /\ Len(m.vertices) = cols * rowLength
            /\ \A x \in 0..(cols - 1), y \in 0..(rowLength - 1) :
                  m.vertices[x * rowLength + y + 1].position =
                      <<Px(terrain, m.coords[1], x) * terrain.res
                            * terrain.size * Unit,
                        get_pixel(terrain.image,
                                  Px(terrain, m.coords[1], x) * terrain.res,
                                  Py(terrain, m.coords[2], y) * terrain.res)
                            * terrain.height_multiplier,
                        Py(terrain, m.coords[2], y) * terrain.res
                            * terrain.size * Unit>>
            /\ Len(m.indices) = 6 * Cardinality(quads)
            /\ \A q \in quads :
                  LET i == q[1] * rowLength + q[2]
                      at == 6 * (q[1] * (rowLength - 1) + q[2])
                  IN  /\ <<m.indices[at + 1], m.indices[at + 2], m.indices[at + 3]>>
                           = <<i, i + 1, i + rowLength + 1>>
                      /\ <<m.indices[at + 4], m.indices[at + 5], m.indices[at + 6]>>
                           = <<i, i + rowLength + 1, i + rowLength>>
            /\ \A n \in 1..Len(m.indices) :
                  0 <= m.indices[n] /\ m.indices[n] < Len(m.vertices)

\* C17's case: all chunks of a terrain of more than one chunk an axis are
\* pushed, one of them with at least two quads and one of them a single row.
C17_Witness ==
    /\ terrain.chunks > 1
    /\ Len(models) = terrain.chunks * terrain.chunks
    /\ \E m \in PushedModels : Len(m.indices) >= 12 /\ Rows(m) # Columns(m)
    /\ \E m \in PushedModels : Rows(m) = 1 /\ Columns(m) > 1

\* The colour the height classification gave vertex n of a pushed model.
ClassifiedColor(m, n) ==
    ChunkVertices(terrain, m.coords[1], m.coords[2])[n].color

\* The triangle order reversed.
ReverseOrder(order) == [k \in 1..Len(order) |-> order[Len(order) + 1 - k]]

\* The vertices of a pushed model had its triangles been processed last to
\* first.
ReversePass(m) ==
    NormalPass(ChunkVertices(terrain, m.coords[1], m.coords[2]), m.indices,
               ReverseOrder(TriangleOrder(m.indices)), 1)

\* Vertex n, classified as c, ended as the claim says: snow stays snow, and
\* a final normal below the slope threshold means dirt unless snow.
SlopeColoured(v, c) ==
    /\ c = Snow => v.color = Snow
    /\ (BelowSlope(v.normal) /\ c # Snow) => v.color = Dirt

\* C18: after normal generation every vertex whose final normal is below the
\* 0.5 slope threshold is dirt unless it was classified snow, and a vertex
\* classified snow is still snow, in the order the triangles are processed
\* and in the reverse of it.
C18_SteepVerticesDirtUnlessSnow ==
    terrain.gen_normals =>
        \A m \in PushedModels :
            /\ \A n \in 1..Len(m.vertices) :
                  SlopeColoured(m.vertices[n], ClassifiedColor(m, n))
            /\ \A n \in 1..Len(m.vertices) :
                  SlopeColoured(ReversePass(m)[n], ClassifiedColor(m, n))

\* C18's case: a pushed chunk has, after normal generation, a snow vertex
\* whose final normal is below the threshold, a vertex turned from grass or
\* rock to dirt, and a vertex of a face that is not below it.
C18_Witness ==
    /\ terrain.gen_normals
    /\ \E m \in PushedModels :
          /\ \E n \in 1..Len(m.vertices) :
                /\ ClassifiedColor(m, n) = Snow
                /\ BelowSlope(m.vertices[n].normal)
                /\ m.vertices[n].color = Snow
          /\ \E n \in 1..Len(m.vertices) :
                /\ ClassifiedColor(m, n) \in {Grass, Rock}
                /\ BelowSlope(m.vertices[n].normal)
                /\ m.vertices[n].color = Dirt
          /\ \E n \in 1..Len(m.vertices) :
                /\ m.vertices[n].normal # <<0, 1, 0>>
                /\ ~BelowSlope(m.vertices[n].normal)
                /\ m.vertices[n].color = Grass

\* The sampled coordinates (px, py) that are a vertex of some pushed chunk.
CoveredSamples ==
    {<<Px(terrain, m.coords[1], x), Py(terrain, m.coords[2], y)>> :
        <<m, x, y>> \in {<<m, x, y>> \in PushedModels \X (0..MaxTerrainDim)
                                                      \X (0..MaxTerrainDim) :
                            x < Columns(m) /\ y < Rows(m)}}

\* C19: no chunk reads a pixel outside the image, and once every chunk is
\* built each sampled coordinate px in 0..width/res-1, py in 0..height/res-1
\* is a vertex of at least one chunk.
C19_ChunksCoverSampledGrid ==
    /\ ~panicked
    /\ Len(models) = terrain.chunks * terrain.chunks =>
          \A px \in 0..(SampledWidth(terrain) - 1),
             py \in 0..(SampledHeight(terrain) - 1) :
              <<px, py>> \in CoveredSamples

====
